---------------------------- MODULE Spec2Model ----------------------------
(***************************************************************************)
(* Model of src/server.js: the upload route (/api/upload-vite-project) and *)
(* the acquisition route (/api/download-and-prepare), together with the    *)
(* working copies they act on.                                             *)
(*                                                                         *)
(* Every awaited call of a handler is one step.  A call that can reject    *)
(* (a git command, a filesystem write, the npm subprocess) succeeds or     *)
(* fails by a nondeterministic choice, unless the state of the working     *)
(* copy already decides the outcome (adding a remote that exists, cloning  *)
(* onto an existing path, ...).  A probe whose rejection the code swallows *)
(* (stat(...).catch, checkIsRepo().catch) reports the fact it probes.      *)
(*                                                                         *)
(* A URL is a sequence of tokens (prefix, account, "/", repository,        *)
(* suffix), so that string operations of the code are computed on it.      *)
(***************************************************************************)
EXTENDS Integers, Sequences, FiniteSets, TLC

VARIABLES
    wc,           \* the upload source path (sourceLocalPath) on disk
    up,           \* the upload request in flight (its locals and position)
    tgt,          \* the acquisition target path (localDownloadPath) on disk
    dl,           \* the acquisition requests, by request slot
    lastRecon,    \* history: desired URL of the last completed remote reconciliation of wc
    concurrency,  \* how many requests the environment keeps in flight at once
    conv          \* a reference handed to convertToSshUrl and what came back

vars == <<wc, up, tgt, dl, lastRecon, concurrency, conv>>

---------------------------------------------------------------------------
(* Bounds *)

\* Number of distinct commit identifiers git.commit may return.
NumCommitIds == 2

\* Number of acquisition request slots.
NumDlSlots == 2

\* Longest reference, in tokens, handed to convertToSshUrl on its own.
MaxUrlTokens == 5

\* How many times in a row a reference is resolved.
MaxResolves == 2

---------------------------------------------------------------------------
(* URLs *)

HttpsPrefix == "https://github.com/"
SshPrefix == "git@github.com:"
DotGit == ".git"

\* process.env.GITHUB_USERNAME
YOUR_GITHUB_USERNAME == "acct"

\* String.prototype.startsWith on a token sequence.
StartsWith(url, prefix) == Len(url) > 0 /\ url[1] = prefix

\* Index of the first occurrence of token, 0 when there is none.
FirstIndexOf(url, token) ==
    IF \E i \in 1..Len(url) : url[i] = token
    THEN CHOOSE i \in 1..Len(url) :
             /\ url[i] = token
             /\ \A j \in 1..(i - 1) : url[j] # token
    ELSE 0

\* String.prototype.replace(string, string): the first occurrence only.
ReplaceFirst(url, token, by) ==
    LET i == FirstIndexOf(url, token)
    IN  IF i = 0 THEN url ELSE [url EXCEPT ![i] = by]

\* String.prototype.replace(/\.git$/, '.git'): a trailing ".git" is replaced by ".git".
ReplaceDotGitSuffix(url) ==
    IF Len(url) > 0 /\ url[Len(url)] = DotGit
    THEN [url EXCEPT ![Len(url)] = DotGit]
    ELSE url

\* Mutant: the rewrite is applied without looking at the start of the reference.
convertToSshUrl_NoGuard(httpsUrl) ==
    ReplaceDotGitSuffix(ReplaceFirst(httpsUrl, HttpsPrefix, SshPrefix))

convertToSshUrl(httpsUrl) ==
    IF StartsWith(httpsUrl, HttpsPrefix)
    THEN ReplaceDotGitSuffix(ReplaceFirst(httpsUrl, HttpsPrefix, SshPrefix))
    ELSE httpsUrl

\* `git@github.com:${YOUR_GITHUB_USERNAME}/${repoName}.git`
remoteUrl(repoName) == <<SshPrefix, YOUR_GITHUB_USERNAME, "/", repoName, DotGit>>

\* branchName || 'main'
actualBranchName(branchName) == IF branchName = "" THEN "main" ELSE branchName

NoUrl == <<>>

\* The pieces references are made of, and the references up to a length.
UrlTokens == {HttpsPrefix, SshPrefix, YOUR_GITHUB_USERNAME, "/", "repo1", DotGit}
References == UNION { [1..n -> UrlTokens] : n \in 0..MaxUrlTokens }

\* No reference resolved yet.
NoConv == [httpsUrl |-> NoUrl, out |-> NoUrl, once |-> NoUrl, n |-> 0]

\* convertToSshUrl applied to the result of the previous application.
Resolve ==
    /\ conv.n < MaxResolves
    /\ conv' = [conv EXCEPT !.out = convertToSshUrl(conv.out),
                            !.once = IF conv.n = 0 THEN convertToSshUrl(conv.out) ELSE @,
                            !.n = @ + 1]
    /\ UNCHANGED <<wc, up, tgt, dl, lastRecon, concurrency>>

---------------------------------------------------------------------------
(* The version-control command surface, as the handlers use it *)

Remote(name, fetch, push) == [name |-> name, fetch |-> fetch, push |-> push]

\* remotes.some(r => r.name === 'origin')
HasOrigin(remotes) == \E i \in 1..Len(remotes) : remotes[i].name = "origin"

\* remotes.find(r => r.name === 'origin'): the first entry of that name.
FindOrigin(remotes) ==
    remotes[CHOOSE i \in 1..Len(remotes) :
                /\ remotes[i].name = "origin"
                /\ \A j \in 1..(i - 1) : remotes[j].name # "origin"]

NotOrigin(r) == r.name # "origin"

\* git remote add origin <url>: refused when the name is taken.
CanAddOrigin(w) == w.isRepo /\ ~HasOrigin(w.remotes)
GitAddOrigin(w, url) == [w EXCEPT !.remotes = Append(@, Remote("origin", url, url))]

\* git remote remove origin: refused when there is none; drops the section.
CanRemoveOrigin(w) == w.isRepo /\ HasOrigin(w.remotes)
GitRemoveOrigin(w) == [w EXCEPT !.remotes = SelectSeq(@, NotOrigin)]

\* git init: creates the metadata; on an existing repository it changes nothing.
GitInit(w) ==
    IF w.isRepo THEN w
    ELSE [w EXCEPT !.isRepo = TRUE, !.remotes = <<>>, !.branches = {},
                   !.tags = {}, !.head = "", !.tip = <<>>, !.at = 0,
                   !.staged = FALSE]

\* git checkout <name>: a local branch, else another ref (detached HEAD), else
\* the "pathspec ... did not match" failure.
CheckoutResolves(w, name) == name \in w.branches \cup w.tags
GitCheckout(w, name) ==
    [w EXCEPT !.head = IF name \in w.branches THEN name ELSE "",
              !.at = w.tip[name]]

\* git checkout -b <name>: refused when the branch exists.
CanCreateBranch(w, name) == w.isRepo /\ name \notin w.branches
GitCheckoutCreate(w, name) ==
    [w EXCEPT !.branches = @ \cup {name}, !.head = name,
              !.tip = [n \in DOMAIN w.tip \cup {name} |->
                         IF n = name THEN w.at ELSE w.tip[n]]]

\* git add .: everything changed in the working tree is staged.
GitAdd(w) == [w EXCEPT !.staged = w.staged \/ w.dirty, !.dirty = FALSE]

\* git commit -m <message> with something staged: the new commit becomes the
\* position of HEAD and of the branch HEAD is on.
GitCommit(w, c) ==
    [w EXCEPT !.staged = FALSE, !.at = c,
              !.tip = IF w.head = "" THEN w.tip
                      ELSE [n \in DOMAIN w.tip \cup {w.head} |->
                              IF n = w.head THEN c ELSE w.tip[n]]]

\* The commit identifier of a git commit that found nothing to commit.
NoCommit == 0

\* Failure classes of a checkout, by what their message contains.
CheckoutErrors == {"pathspec", "not found", "other"}
MsgIncludes(err, text) == err = text

---------------------------------------------------------------------------
(* The upload source path *)

SrcPath == "/home/project"

RepoNames == {"repo1", "repo2"}
CommitIds == 1..NumCommitIds

\* A path that is no working copy: its files, if any, are untracked.
NoRepoFields == [isRepo |-> FALSE, remotes |-> <<>>, branches |-> {},
                 tags |-> {}, head |-> "", tip |-> <<>>, at |-> 0,
                 dirty |-> TRUE, staged |-> FALSE]

\* Remote configurations a repository on disk may start with.
InitRemoteConfigs ==
    { <<>>,
      <<Remote("origin", remoteUrl("repo1"), remoteUrl("repo1"))>>,
      <<Remote("origin", remoteUrl("repo1"), remoteUrl("repo2"))>>,
      <<Remote("origin", <<HttpsPrefix, YOUR_GITHUB_USERNAME, "/", "repo1", DotGit>>,
                         <<HttpsPrefix, YOUR_GITHUB_USERNAME, "/", "repo1", DotGit>>)>>,
      <<Remote("backup", remoteUrl("repo2"), remoteUrl("repo2"))>> }

\* Refs a repository on disk may start with.  Positions below zero are commits
\* made before the server acted; git.commit makes the positions above zero.
InitRefs ==
    { [branches |-> {"main"}, tags |-> {"v1"}, head |-> "main",
       tip |-> [n \in {"main", "v1"} |-> IF n = "main" THEN -1 ELSE -2],
       at |-> -1],
      [branches |-> {"main", "dev"}, tags |-> {"v1"}, head |-> "dev",
       tip |-> [n \in {"main", "dev", "v1"} |-> IF n = "main" THEN -1 ELSE -2],
       at |-> -2] }

InitWc ==
    \/ \E k \in {"absent", "file"} :
        wc = [kind |-> k, manifest |-> FALSE, script |-> "none"] @@ NoRepoFields
    \/ wc = [kind |-> "dir", manifest |-> FALSE, script |-> "none"] @@ NoRepoFields
    \/ \E s \in {"none", "exec"} :
        \/ wc = [kind |-> "dir", manifest |-> TRUE, script |-> s] @@ NoRepoFields
        \/ \E rs \in InitRemoteConfigs, refs \in InitRefs, dirty \in BOOLEAN :
            wc = [kind |-> "dir", manifest |-> TRUE, script |-> s,
                  isRepo |-> TRUE, remotes |-> rs, branches |-> refs.branches,
                  tags |-> refs.tags, head |-> refs.head, tip |-> refs.tip,
                  at |-> refs.at, dirty |-> dirty, staged |-> FALSE]

---------------------------------------------------------------------------
(* The upload request: app.post('/api/upload-vite-project') *)

UpIdle ==
    [pc |-> "idle", src |-> "", repo |-> "", branch |-> "", msg |-> "",
     ops |-> <<>>, isRepo |-> FALSE, startRemotes |-> <<>>, prevRecon |-> NoUrl,
     commit |-> 0, current |-> "", resp |-> 0, respCommit |-> 0, err |-> "",
     startWc |-> <<>>, hadBranch |-> FALSE, preAt |-> 0, checkoutErr |-> "",
     nothingStaged |-> FALSE]

\* Request bodies: the valid ones and one body per missing field.
UploadBodies ==
    { [src |-> SrcPath, repo |-> r, branchName |-> b, msg |-> "fix bug"] :
          r \in RepoNames, b \in {"", "dev", "v1"} }
    \cup { [src |-> "", repo |-> "repo1", branchName |-> "", msg |-> "fix bug"],
           [src |-> SrcPath, repo |-> "", branchName |-> "", msg |-> "fix bug"],
           [src |-> SrcPath, repo |-> "repo1", branchName |-> "", msg |-> ""] }

Op(name, ok) == [op |-> name, ok |-> ok]

\* An awaited call resolved: record it and go on.
UpNext(u, name, pc) == [u EXCEPT !.ops = Append(@, Op(name, TRUE)), !.pc = pc]

\* An awaited call rejected inside the try block: the catch answers 500.
UpCatch(u, name) ==
    [u EXCEPT !.ops = Append(@, Op(name, FALSE)), !.pc = "done",
              !.resp = 500, !.err = name]

\* An early return with a status code.
UpReturn(u, name, code) ==
    [u EXCEPT !.ops = Append(@, Op(name, FALSE)), !.pc = "done",
              !.resp = code, !.err = name]

\* Mutant: the answer carries the commit the working copy was at before the request.
UpRespond_Stale(u) == [u EXCEPT !.pc = "done", !.resp = 200, !.respCommit = u.preAt]

\* res.status(200).json({... Commit: ${commitResult.commit} ...})
UpRespond(u) == [u EXCEPT !.pc = "done", !.resp = 200, !.respCommit = u.commit]

\* The requests the server is handling.
InFlight == (IF up.pc = "idle" THEN 0 ELSE 1)
            + Cardinality({r \in DOMAIN dl : dl[r].pc # "idle"})

\* The environment sends a request only while fewer than `concurrency` are handled.
CanStart == InFlight < concurrency

\* Destructuring of req.body and the field validation.
UpRequest ==
    /\ up.pc = "idle"
    /\ CanStart
    /\ \E body \in UploadBodies :
        LET u == [UpIdle EXCEPT !.src = body.src, !.repo = body.repo,
                                !.branch = actualBranchName(body.branchName),
                                !.msg = body.msg,
                                !.startRemotes = wc.remotes,
                                !.startWc = wc,
                                !.prevRecon = lastRecon]
        IN  up' = IF body.src = "" \/ body.repo = "" \/ body.msg = ""
                  THEN UpReturn(u, "validate", 400)
                  ELSE [u EXCEPT !.pc = "stat"]
    /\ UNCHANGED <<wc, tgt, dl, lastRecon, concurrency, conv>>

\* Mutant: the script is copied before the manifest is looked for.
UpValidate_ScriptFirst ==
    /\ up.pc = "stat"
    /\ IF wc.kind # "dir"
       THEN /\ up' = UpReturn(up, "validate", 404)
            /\ wc' = wc
       ELSE IF ~wc.manifest
       THEN /\ up' = UpReturn(UpNext(up, "copyFile", "stat"), "validate", 400)
            /\ wc' = [wc EXCEPT !.script = "plain", !.dirty = TRUE]
       ELSE /\ up' = UpNext(up, "validate", "script")
            /\ wc' = wc
    /\ UNCHANGED <<tgt, dl, lastRecon, concurrency, conv>>

\* 1. the source path is a directory holding package.json
UpValidate ==
    /\ up.pc = "stat"
    /\ up' = IF wc.kind # "dir" THEN UpReturn(up, "validate", 404)
             ELSE IF ~wc.manifest THEN UpReturn(up, "validate", 400)
             ELSE UpNext(up, "validate", "script")
    /\ UNCHANGED <<wc, tgt, dl, lastRecon, concurrency, conv>>

\* run-vite-project.sh is copied and made executable when it is missing
UpEnsureScript ==
    /\ up.pc = "script"
    /\ IF wc.script # "none"
       THEN /\ up' = [up EXCEPT !.pc = "checkIsRepo"]
            /\ wc' = wc
       ELSE \/ /\ up' = UpCatch(up, "copyFile")
               /\ wc' = wc
            \/ /\ up' = UpCatch(UpNext(up, "copyFile", "script"), "chmod")
               /\ wc' = [wc EXCEPT !.script = "plain", !.dirty = TRUE]
            \/ /\ up' = UpNext(UpNext(up, "copyFile", "script"), "chmod", "checkIsRepo")
               /\ wc' = [wc EXCEPT !.script = "exec", !.dirty = TRUE]
    /\ UNCHANGED <<tgt, dl, lastRecon, concurrency, conv>>

\* const isRepo = await git.checkIsRepo().catch(() => false)
UpCheckIsRepo ==
    /\ up.pc = "checkIsRepo"
    /\ up' = [UpNext(up, "checkIsRepo", IF wc.isRepo THEN "getRemotes" ELSE "init")
                EXCEPT !.isRepo = wc.isRepo]
    /\ UNCHANGED <<wc, tgt, dl, lastRecon, concurrency, conv>>

\* Mutant: after init the remote is not registered.
UpInit_NoRemote ==
    /\ up.pc = "init"
    /\ \/ /\ wc' = GitInit(wc)
          /\ up' = UpNext(up, "init", "checkout")
          /\ lastRecon' = NoUrl
       \/ /\ up' = UpCatch(up, "init")
          /\ UNCHANGED <<wc, lastRecon>>
    /\ UNCHANGED <<tgt, dl, concurrency, conv>>

\* await git.init()
UpInit ==
    /\ up.pc = "init"
    /\ \/ /\ wc' = GitInit(wc)
          /\ up' = UpNext(up, "init", "addRemote")
          /\ lastRecon' = NoUrl
       \/ /\ up' = UpCatch(up, "init")
          /\ UNCHANGED <<wc, lastRecon>>
    /\ UNCHANGED <<tgt, dl, concurrency, conv>>

\* Mutant: an existing origin is repointed whatever its URL is.
UpGetRemotes_AlwaysRepoint ==
    /\ up.pc = "getRemotes"
    /\ up' = IF ~HasOrigin(wc.remotes)
             THEN UpNext(up, "getRemotes", "addRemote")
             ELSE UpNext(up, "getRemotes", "removeRemote")
    /\ UNCHANGED <<wc, tgt, dl, lastRecon, concurrency, conv>>

\* const remotes = await git.getRemotes(true), and the decision taken on it
UpGetRemotes ==
    /\ up.pc = "getRemotes"
    /\ LET remotes == wc.remotes
       IN  up' = IF ~HasOrigin(remotes)
                 THEN UpNext(up, "getRemotes", "addRemote")
                 ELSE IF FindOrigin(remotes).fetch # remoteUrl(up.repo)
                 THEN UpNext(up, "getRemotes", "removeRemote")
                 ELSE UpNext(up, "getRemotes", "checkout")
    /\ lastRecon' = IF HasOrigin(wc.remotes)
                       /\ FindOrigin(wc.remotes).fetch = remoteUrl(up.repo)
                    THEN remoteUrl(up.repo) ELSE lastRecon
    /\ UNCHANGED <<wc, tgt, dl, concurrency, conv>>

\* await git.removeRemote('origin')
UpRemoveRemote ==
    /\ up.pc = "removeRemote"
    /\ \/ /\ CanRemoveOrigin(wc)
          /\ wc' = GitRemoveOrigin(wc)
          /\ up' = UpNext(up, "removeRemote", "addRemote")
          /\ lastRecon' = NoUrl
       \/ /\ up' = UpCatch(up, "removeRemote")
          /\ UNCHANGED <<wc, lastRecon>>
    /\ UNCHANGED <<tgt, dl, concurrency, conv>>

\* await git.addRemote('origin', remoteUrl), at each of its three places
UpAddRemote ==
    /\ up.pc = "addRemote"
    /\ \/ /\ CanAddOrigin(wc)
          /\ wc' = GitAddOrigin(wc, remoteUrl(up.repo))
          /\ up' = UpNext(up, "addRemote", "checkout")
          /\ lastRecon' = remoteUrl(up.repo)
       \/ /\ up' = UpCatch(up, "addRemote")
          /\ lastRecon' = NoUrl
          /\ wc' = wc
    /\ UNCHANGED <<tgt, dl, concurrency, conv>>

\* 3. await git.checkout(actualBranchName), and the classification of its failure
UpCheckout ==
    /\ up.pc = "checkout"
    /\ LET u == [up EXCEPT !.hadBranch = up.branch \in wc.branches,
                           !.preAt = wc.at]
       IN  \/ /\ CheckoutResolves(wc, up.branch)
              /\ wc' = GitCheckout(wc, up.branch)
              /\ up' = UpNext(u, "checkout", "add")
           \/ /\ \E e \in CheckoutErrors :
                   /\ (e = "pathspec") => ~CheckoutResolves(wc, up.branch)
                   /\ up' = IF MsgIncludes(e, "pathspec") \/ MsgIncludes(e, "not found")
                            THEN [u EXCEPT !.ops = Append(@, Op("checkout", FALSE)),
                                           !.checkoutErr = e,
                                           !.pc = "checkoutCreate"]
                            ELSE [UpCatch(u, "checkout") EXCEPT !.checkoutErr = e]
              /\ wc' = wc
    /\ UNCHANGED <<tgt, dl, lastRecon, concurrency, conv>>

\* await git.checkout(['-b', actualBranchName])
UpCheckoutCreate ==
    /\ up.pc = "checkoutCreate"
    /\ \/ /\ CanCreateBranch(wc, up.branch)
          /\ wc' = GitCheckoutCreate(wc, up.branch)
          /\ up' = UpNext(up, "checkoutCreate", "add")
       \/ /\ up' = UpCatch(up, "checkoutCreate")
          /\ wc' = wc
    /\ UNCHANGED <<tgt, dl, lastRecon, concurrency, conv>>

\* Mutant: with nothing staged the commit and the push are skipped.
UpAdd_SkipEmpty ==
    /\ up.pc = "add"
    /\ \/ /\ wc' = GitAdd(wc)
          /\ up' = IF wc.staged \/ wc.dirty
                   THEN UpNext(up, "add", "commit")
                   ELSE UpRespond([UpNext(up, "add", "respond")
                                     EXCEPT !.nothingStaged = TRUE])
       \/ /\ up' = UpCatch(up, "add")
          /\ wc' = wc
    /\ UNCHANGED <<tgt, dl, lastRecon, concurrency, conv>>

\* 4. await git.add('.')
UpAdd ==
    /\ up.pc = "add"
    /\ \/ /\ wc' = GitAdd(wc)
          /\ up' = [UpNext(up, "add", "commit")
                      EXCEPT !.nothingStaged = ~(wc.staged \/ wc.dirty)]
       \/ /\ up' = UpCatch(up, "add")
          /\ wc' = wc
    /\ UNCHANGED <<tgt, dl, lastRecon, concurrency, conv>>

\* Mutant: a rejected commit is swallowed and the handler goes on to the push.
UpCommit_Swallow ==
    /\ up.pc = "commit"
    /\ \/ /\ wc.staged
          /\ \E c \in CommitIds :
               /\ wc' = GitCommit(wc, c)
               /\ up' = [UpNext(up, "commit", "branch") EXCEPT !.commit = c]
       \/ /\ ~wc.staged
          /\ wc' = wc
          /\ up' = [UpNext(up, "commit", "branch") EXCEPT !.commit = NoCommit]
       \/ /\ up' = [up EXCEPT !.ops = Append(@, Op("commit", FALSE)), !.pc = "branch"]
          /\ wc' = wc
    /\ UNCHANGED <<tgt, dl, lastRecon, concurrency, conv>>

\* const commitResult = await git.commit(commitMessage).  With something staged
\* the call resolves with the new commit or rejects.  With nothing staged git
\* makes no commit; whether the call then rejects or resolves with an empty
\* commit identifier is decided by the git wrapper, so both are outcomes.
UpCommit ==
    /\ up.pc = "commit"
    /\ \/ /\ wc.staged
          /\ \E c \in CommitIds :
               /\ wc' = GitCommit(wc, c)
               /\ up' = [UpNext(up, "commit", "branch") EXCEPT !.commit = c]
       \/ /\ ~wc.staged
          /\ wc' = wc
          /\ up' = [UpNext(up, "commit", "branch") EXCEPT !.commit = NoCommit]
       \/ /\ up' = UpCatch(up, "commit")
          /\ wc' = wc
    /\ UNCHANGED <<tgt, dl, lastRecon, concurrency, conv>>

\* Mutant: the plain push is chosen whatever the current branch is.
UpBranch_PlainFirst ==
    /\ up.pc = "branch"
    /\ up' = [UpNext(up, "branch", "push") EXCEPT !.current = wc.head]
    /\ UNCHANGED <<wc, tgt, dl, lastRecon, concurrency, conv>>

\* const branchSummary = await git.branch(['--show-current']), and the choice of push
UpBranch ==
    /\ up.pc = "branch"
    /\ up' = [UpNext(up, "branch",
                     IF wc.head = up.branch THEN "pushSetUpstream" ELSE "push")
                EXCEPT !.current = wc.head]
    /\ UNCHANGED <<wc, tgt, dl, lastRecon, concurrency, conv>>

\* await git.push('origin', actualBranchName, {'--set-upstream': null})
UpPushSetUpstream ==
    /\ up.pc = "pushSetUpstream"
    /\ \/ up' = UpRespond(UpNext(up, "pushSetUpstream", "respond"))
       \/ up' = [up EXCEPT !.ops = Append(@, Op("pushSetUpstream", FALSE)),
                           !.pc = "pushRetry"]
    /\ UNCHANGED <<wc, tgt, dl, lastRecon, concurrency, conv>>

\* Mutant: a failed plain push is tried once more before the request fails.
UpPushRetry_Again ==
    /\ up.pc = "pushRetry"
    /\ \/ up' = UpRespond(UpNext(up, "push", "respond"))
       \/ up' = IF Cardinality({i \in DOMAIN up.ops : up.ops[i].op = "push"}) < 1
                THEN [up EXCEPT !.ops = Append(@, Op("push", FALSE))]
                ELSE UpCatch(up, "push")
    /\ UNCHANGED <<wc, tgt, dl, lastRecon, concurrency, conv>>

\* await git.push('origin', actualBranchName), in the catch of the first push
UpPushRetry ==
    /\ up.pc = "pushRetry"
    /\ \/ up' = UpRespond(UpNext(up, "push", "respond"))
       \/ up' = UpCatch(up, "push")
    /\ UNCHANGED <<wc, tgt, dl, lastRecon, concurrency, conv>>

\* await git.push('origin', actualBranchName), when the current branch is another
UpPush ==
    /\ up.pc = "push"
    /\ \/ up' = UpRespond(UpNext(up, "push", "respond"))
       \/ up' = UpCatch(up, "push")
    /\ UNCHANGED <<wc, tgt, dl, lastRecon, concurrency, conv>>

\* The handler has answered; the server takes the next request.
UpDone ==
    /\ up.pc = "done"
    /\ up' = UpIdle
    /\ UNCHANGED <<wc, tgt, dl, lastRecon, concurrency, conv>>

NextUpload ==
    \/ UpRequest
    \/ UpValidate
    \/ UpEnsureScript
    \/ UpCheckIsRepo
    \/ UpInit
    \/ UpGetRemotes
    \/ UpRemoveRemote
    \/ UpAddRemote
    \/ UpCheckout
    \/ UpCheckoutCreate
    \/ UpAdd
    \/ UpCommit
    \/ UpBranch
    \/ UpPushSetUpstream
    \/ UpPushRetry
    \/ UpPush
    \/ UpDone

---------------------------------------------------------------------------
(* The acquisition target path *)

TargetPath == "/base/project"

\* path.dirname(localDownloadPath)
dirname(p) == IF p = TargetPath THEN "/base" ELSE "."

TgtAbsent ==
    [kind |-> "absent", isRepo |-> FALSE, remotes |-> <<>>, head |-> "",
     tree |-> "none", deps |-> "none", script |-> "none"]

DlUrl(prefix, repo, suffix) ==
    <<prefix, YOUR_GITHUB_USERNAME, "/", repo>> \o suffix

\* References a caller may send for the same repository.
DlUrls ==
    { DlUrl(HttpsPrefix, "repo1", <<DotGit>>),
      DlUrl(HttpsPrefix, "repo1", <<>>),
      DlUrl(SshPrefix, "repo1", <<DotGit>>) }

InitTgtRemoteConfigs ==
    { <<>>,
      <<Remote("origin", DlUrl(SshPrefix, "repo1", <<DotGit>>),
                         DlUrl(SshPrefix, "repo1", <<DotGit>>))>>,
      <<Remote("origin", DlUrl(HttpsPrefix, "repo1", <<DotGit>>),
                         DlUrl(HttpsPrefix, "repo1", <<DotGit>>))>> }

InitTgt ==
    \/ tgt = TgtAbsent
    \/ tgt = [TgtAbsent EXCEPT !.kind = "file"]
    \/ tgt = [TgtAbsent EXCEPT !.kind = "dir", !.tree = "old"]
    \/ \E rs \in InitTgtRemoteConfigs, s \in {"none", "exec"} :
        tgt = [kind |-> "dir", isRepo |-> TRUE, remotes |-> rs, head |-> "main",
               tree |-> "old", deps |-> "installed", script |-> s]

\* fs.promises.stat(p).then(stat => stat.isDirectory()).catch(() => false)
IsDirectory(t) == t.kind = "dir"

\* fs.promises.stat(p).catch(() => null)
Exists(t) == t.kind # "absent"

\* fs.promises.rm(p, { recursive: true, force: true }) that resolved
RmDone(t) == TgtAbsent

\* What a rejected rm may leave: the path as it was, or a directory partly emptied.
RmFailedLeaves(t) ==
    {t} \cup (IF t.kind = "dir" THEN {[t EXCEPT !.tree = "partial"]} ELSE {})

\* git pull origin <branch>: needs a working copy with a remote named origin.
CanPull(t) == t.kind = "dir" /\ t.isRepo /\ HasOrigin(t.remotes)
GitPull(t) == [t EXCEPT !.tree = "pulled"]
PullFailedLeaves(t) ==
    {t} \cup (IF CanPull(t) THEN {[t EXCEPT !.tree = "partial"]} ELSE {})

\* git clone <url> <path> --branch <b>: refused when the path exists.
CanClone(t) == t.kind = "absent"
GitClone(t, url, branch, script) ==
    [kind |-> "dir", isRepo |-> TRUE, remotes |-> <<Remote("origin", url, url)>>,
     head |-> branch, tree |-> "cloned", deps |-> "none", script |-> script]
CloneFailedLeaves(t) ==
    {t} \cup (IF CanClone(t)
              THEN {[TgtAbsent EXCEPT !.kind = "dir", !.tree = "partial"]}
              ELSE {})

\* npm install with cwd = the path: needs the directory.
CanInstall(t) == t.kind = "dir"
NpmInstall(t) == [t EXCEPT !.deps = "installed"]
InstallFailedLeaves(t) ==
    {t} \cup (IF CanInstall(t) THEN {[t EXCEPT !.deps = "partial"]} ELSE {})

\* Whether the repository at a URL holds run-vite-project.sh, and with which mode.
RepoScripts == {"none", "plain", "exec"}

---------------------------------------------------------------------------
(* The acquisition request: app.post('/api/download-and-prepare') *)

DlSlots == 1..NumDlSlots

DlIdle ==
    [pc |-> "idle", url |-> NoUrl, ssh |-> NoUrl, branch |-> "", path |-> "",
     targetPathExists |-> FALSE, ops |-> <<>>, err |-> "", cleanup |-> "none",
     resp |-> 0, respErr |-> "", respPath |-> "", respDeps |-> ""]

DownloadBodies ==
    { [url |-> u, branchName |-> b, path |-> TargetPath] :
          u \in DlUrls, b \in {"", "dev"} }
    \cup { [url |-> NoUrl, branchName |-> "", path |-> TargetPath],
           [url |-> DlUrl(HttpsPrefix, "repo1", <<DotGit>>), branchName |-> "",
            path |-> ""] }

\* A call of the handler with its outcome and the kind of the target before it.
DlOp(name, ok) == [op |-> name, ok |-> ok, pre |-> tgt.kind]

\* An awaited call resolved.
DlNext(d, name, pc) == [d EXCEPT !.ops = Append(@, DlOp(name, TRUE)), !.pc = pc]

\* Mutant: a failed mkdir is answered at once, as if it stood before the try block.
DlThrow_MkdirOutside(d, name) ==
    IF name = "mkdir"
    THEN [d EXCEPT !.ops = Append(@, DlOp(name, FALSE)), !.err = name,
                   !.pc = "done", !.resp = 500, !.respErr = name]
    ELSE [d EXCEPT !.ops = Append(@, DlOp(name, FALSE)), !.err = name,
                   !.pc = "cleanupStat"]

\* An awaited call rejected into the outer catch: the error is kept, cleanup follows.
DlThrow(d, name) ==
    [d EXCEPT !.ops = Append(@, DlOp(name, FALSE)), !.err = name,
              !.pc = "cleanupStat"]

\* An awaited call rejected inside the inner try: catch (pullError).
DlPullCatch(d, name) ==
    [d EXCEPT !.ops = Append(@, DlOp(name, FALSE)), !.pc = "rmFailedUpdate"]

\* Mutant: the answer carries the cleanup's failure when the cleanup failed.
DlRespondError_Masked(d) ==
    [d EXCEPT !.pc = "done", !.resp = 500,
              !.respErr = IF d.cleanup = "failed" THEN "cleanupRm" ELSE d.err]

\* res.status(500).json({ message: `...: ${error.message}` })
DlRespondError(d) == [d EXCEPT !.pc = "done", !.resp = 500, !.respErr = d.err]

\* Mutant: the answer carries the parent directory instead of the target path.
DlRespondOk_Parent(d) ==
    [d EXCEPT !.pc = "done", !.resp = 200, !.respPath = dirname(d.path),
              !.respDeps = tgt.deps]

\* res.status(200).json({ message, path: localDownloadPath }); respDeps keeps
\* what the target held of its dependencies when the answer was sent.
DlRespondOk(d) ==
    [d EXCEPT !.pc = "done", !.resp = 200, !.respPath = d.path,
              !.respDeps = tgt.deps]

\* The lowest free request slot.
FreeSlot(r) ==
    /\ dl[r].pc = "idle"
    /\ \A q \in DlSlots : q < r => dl[q].pc # "idle"

\* Mutant: a request waits in a queue until no other request is being handled.
DlRequest_Queued(r) ==
    /\ FreeSlot(r)
    /\ CanStart
    /\ \A q \in DlSlots : dl[q].pc \in {"idle", "done"}
    /\ \E body \in DownloadBodies :
        LET d == [DlIdle EXCEPT !.url = body.url, !.path = body.path,
                                !.branch = actualBranchName(body.branchName)]
        IN  dl' = [dl EXCEPT ![r] =
                     IF body.url = NoUrl \/ body.path = ""
                     THEN [d EXCEPT !.pc = "done", !.resp = 400]
                     ELSE [d EXCEPT !.pc = "mkdir"]]
    /\ UNCHANGED <<wc, up, tgt, lastRecon, concurrency, conv>>

\* Destructuring of req.body and the field validation.
DlRequest(r) ==
    /\ FreeSlot(r)
    /\ CanStart
    /\ \E body \in DownloadBodies :
        LET d == [DlIdle EXCEPT !.url = body.url, !.path = body.path,
                                !.branch = actualBranchName(body.branchName)]
        IN  dl' = [dl EXCEPT ![r] =
                     IF body.url = NoUrl \/ body.path = ""
                     THEN [d EXCEPT !.pc = "done", !.resp = 400]
                     ELSE [d EXCEPT !.pc = "mkdir"]]
    /\ UNCHANGED <<wc, up, tgt, lastRecon, concurrency, conv>>

\* await fs.promises.mkdir(parentDir, { recursive: true }); then convertToSshUrl
DlMkdir(r) ==
    /\ dl[r].pc = "mkdir"
    /\ \/ dl' = [dl EXCEPT ![r] =
                   [DlNext(@, "mkdir", "stat") EXCEPT !.ssh = convertToSshUrl(dl[r].url)]]
       \/ dl' = [dl EXCEPT ![r] = DlThrow(@, "mkdir")]
    /\ UNCHANGED <<wc, up, tgt, lastRecon, concurrency, conv>>

\* const targetPathExists = await stat(localDownloadPath)...isDirectory()
DlStat(r) ==
    /\ dl[r].pc = "stat"
    /\ dl' = [dl EXCEPT ![r] =
                [DlNext(@, "stat", IF IsDirectory(tgt) THEN "getRemotes" ELSE "clone")
                   EXCEPT !.targetPathExists = IsDirectory(tgt)]]
    /\ UNCHANGED <<wc, up, tgt, lastRecon, concurrency, conv>>

\* const remotes = await gitPull.getRemotes(true), and the decision taken on it
DlGetRemotes(r) ==
    /\ dl[r].pc = "getRemotes"
    /\ dl' = [dl EXCEPT ![r] =
                IF ~(tgt.kind = "dir" /\ tgt.isRepo)
                THEN DlPullCatch(@, "getRemotes")
                ELSE IF HasOrigin(tgt.remotes)
                        /\ FindOrigin(tgt.remotes).fetch # dl[r].ssh
                THEN DlNext(@, "getRemotes", "removeRemote")
                ELSE DlNext(@, "getRemotes", "pull")]
    /\ UNCHANGED <<wc, up, tgt, lastRecon, concurrency, conv>>

\* await gitPull.removeRemote('origin')
DlRemoveRemote(r) ==
    /\ dl[r].pc = "removeRemote"
    /\ \/ /\ tgt.kind = "dir"
          /\ CanRemoveOrigin(tgt)
          /\ tgt' = GitRemoveOrigin(tgt)
          /\ dl' = [dl EXCEPT ![r] = DlNext(@, "removeRemote", "addRemote")]
       \/ /\ dl' = [dl EXCEPT ![r] = DlPullCatch(@, "removeRemote")]
          /\ tgt' = tgt
    /\ UNCHANGED <<wc, up, lastRecon, concurrency, conv>>

\* await gitPull.addRemote('origin', sshRepoUrl)
DlAddRemote(r) ==
    /\ dl[r].pc = "addRemote"
    /\ \/ /\ tgt.kind = "dir"
          /\ CanAddOrigin(tgt)
          /\ tgt' = GitAddOrigin(tgt, dl[r].ssh)
          /\ dl' = [dl EXCEPT ![r] = DlNext(@, "addRemote", "pull")]
       \/ /\ dl' = [dl EXCEPT ![r] = DlPullCatch(@, "addRemote")]
          /\ tgt' = tgt
    /\ UNCHANGED <<wc, up, lastRecon, concurrency, conv>>

\* await gitPull.pull('origin', actualBranchName)
DlPull(r) ==
    /\ dl[r].pc = "pull"
    /\ \/ /\ CanPull(tgt)
          /\ tgt' = GitPull(tgt)
          /\ dl' = [dl EXCEPT ![r] = DlNext(@, "pull", "recheck")]
       \/ /\ dl' = [dl EXCEPT ![r] = DlPullCatch(@, "pull")]
          /\ tgt' \in PullFailedLeaves(tgt)
    /\ UNCHANGED <<wc, up, lastRecon, concurrency, conv>>

\* Mutant: the catch of the failed update falls through without removing anything.
DlRmFailedUpdate_Skip(r) ==
    /\ dl[r].pc = "rmFailedUpdate"
    /\ dl' = [dl EXCEPT ![r].pc = "recheck"]
    /\ UNCHANGED <<wc, up, tgt, lastRecon, concurrency, conv>>

\* catch (pullError): await fs.promises.rm(localDownloadPath, {recursive, force})
DlRmFailedUpdate(r) ==
    /\ dl[r].pc = "rmFailedUpdate"
    /\ \/ /\ tgt' = RmDone(tgt)
          /\ dl' = [dl EXCEPT ![r] = DlNext(@, "rm", "recheck")]
       \/ /\ tgt' \in RmFailedLeaves(tgt)
          /\ dl' = [dl EXCEPT ![r] = DlThrow(@, "rm")]
    /\ UNCHANGED <<wc, up, lastRecon, concurrency, conv>>

\* Mutant: the clone is run whatever the second look at the target finds.
DlRecheck_AlwaysClone(r) ==
    /\ dl[r].pc = "recheck"
    /\ dl' = [dl EXCEPT ![r] = DlNext(@, "recheck", "clone")]
    /\ UNCHANGED <<wc, up, tgt, lastRecon, concurrency, conv>>

\* if (!targetPathExists || (targetPathExists && !await stat(...).isDirectory()))
DlRecheck(r) ==
    /\ dl[r].pc = "recheck"
    /\ dl' = [dl EXCEPT ![r] =
                DlNext(@, "recheck", IF ~IsDirectory(tgt) THEN "clone" ELSE "install")]
    /\ UNCHANGED <<wc, up, tgt, lastRecon, concurrency, conv>>

\* await gitClone.clone(sshRepoUrl, localDownloadPath, ['--branch', actualBranchName])
DlClone(r) ==
    /\ dl[r].pc = "clone"
    /\ \/ /\ CanClone(tgt)
          /\ \E s \in RepoScripts :
               tgt' = GitClone(tgt, dl[r].ssh, dl[r].branch, s)
          /\ dl' = [dl EXCEPT ![r] = DlNext(@, "clone", "install")]
       \/ /\ tgt' \in CloneFailedLeaves(tgt)
          /\ dl' = [dl EXCEPT ![r] = DlThrow(@, "clone")]
    /\ UNCHANGED <<wc, up, lastRecon, concurrency, conv>>

\* await execa('npm', ['install'], { cwd: localDownloadPath })
DlInstall(r) ==
    /\ dl[r].pc = "install"
    /\ \/ /\ CanInstall(tgt)
          /\ tgt' = NpmInstall(tgt)
          /\ dl' = [dl EXCEPT ![r] = DlNext(@, "install", "scriptStat")]
       \/ /\ tgt' \in InstallFailedLeaves(tgt)
          /\ dl' = [dl EXCEPT ![r] = DlThrow(@, "install")]
    /\ UNCHANGED <<wc, up, lastRecon, concurrency, conv>>

\* if (!await fs.promises.stat(runScriptPathInProject).catch(() => null))
DlScriptStat(r) ==
    /\ dl[r].pc = "scriptStat"
    /\ dl' = [dl EXCEPT ![r] =
                DlNext(@, "scriptStat",
                       IF tgt.kind = "dir" /\ tgt.script # "none"
                       THEN "chmod" ELSE "copyFile")]
    /\ UNCHANGED <<wc, up, tgt, lastRecon, concurrency, conv>>

\* await fs.promises.copyFile(RUN_VITE_PROJECT_SCRIPT_TEMPLATE, runScriptPathInProject)
DlCopyFile(r) ==
    /\ dl[r].pc = "copyFile"
    /\ \/ /\ tgt.kind = "dir"
          /\ tgt' = [tgt EXCEPT !.script = "plain"]
          /\ dl' = [dl EXCEPT ![r] = DlNext(@, "copyFile", "chmod")]
       \/ /\ tgt' = tgt
          /\ dl' = [dl EXCEPT ![r] = DlThrow(@, "copyFile")]
    /\ UNCHANGED <<wc, up, lastRecon, concurrency, conv>>

\* await fs.promises.chmod(runScriptPathInProject, 0o755), then the 200 answer
DlChmod(r) ==
    /\ dl[r].pc = "chmod"
    /\ \/ /\ tgt.kind = "dir" /\ tgt.script # "none"
          /\ tgt' = [tgt EXCEPT !.script = "exec"]
          /\ dl' = [dl EXCEPT ![r] = DlRespondOk(DlNext(@, "chmod", "respond"))]
       \/ /\ tgt' = tgt
          /\ dl' = [dl EXCEPT ![r] = DlThrow(@, "chmod")]
    /\ UNCHANGED <<wc, up, lastRecon, concurrency, conv>>

\* Mutant: the catch answers without cleaning the target path up.
DlCleanupStat_Skip(r) ==
    /\ dl[r].pc = "cleanupStat"
    /\ dl' = [dl EXCEPT ![r] = DlRespondError(@)]
    /\ UNCHANGED <<wc, up, tgt, lastRecon, concurrency, conv>>

\* catch (error): if (await fs.promises.stat(localDownloadPath).catch(() => null))
DlCleanupStat(r) ==
    /\ dl[r].pc = "cleanupStat"
    /\ dl' = [dl EXCEPT ![r] =
                IF Exists(tgt)
                THEN DlNext(@, "cleanupStat", "cleanupRm")
                ELSE DlRespondError([DlNext(@, "cleanupStat", "respond")
                                       EXCEPT !.cleanup = "absent"])]
    /\ UNCHANGED <<wc, up, tgt, lastRecon, concurrency, conv>>

\* await fs.promises.rm(localDownloadPath, ...) in the catch, then the 500 answer
DlCleanupRm(r) ==
    /\ dl[r].pc = "cleanupRm"
    /\ \/ /\ tgt' = RmDone(tgt)
          /\ dl' = [dl EXCEPT ![r] =
                      DlRespondError([DlNext(@, "cleanupRm", "respond")
                                        EXCEPT !.cleanup = "removed"])]
       \/ /\ tgt' \in RmFailedLeaves(tgt)
          /\ dl' = [dl EXCEPT ![r] =
                      DlRespondError(
                          [@ EXCEPT !.ops = Append(@, DlOp("cleanupRm", FALSE)),
                                    !.cleanup = "failed"])]
    /\ UNCHANGED <<wc, up, lastRecon, concurrency, conv>>

\* The handler has answered; the slot is free for the next request.
DlDone(r) ==
    /\ dl[r].pc = "done"
    /\ dl' = [dl EXCEPT ![r] = DlIdle]
    /\ UNCHANGED <<wc, up, tgt, lastRecon, concurrency, conv>>

NextDownload ==
    \E r \in DlSlots :
        \/ DlRequest(r)
        \/ DlMkdir(r)
        \/ DlStat(r)
        \/ DlGetRemotes(r)
        \/ DlRemoveRemote(r)
        \/ DlAddRemote(r)
        \/ DlPull(r)
        \/ DlRmFailedUpdate(r)
        \/ DlRecheck(r)
        \/ DlClone(r)
        \/ DlInstall(r)
        \/ DlScriptStat(r)
        \/ DlCopyFile(r)
        \/ DlChmod(r)
        \/ DlCleanupStat(r)
        \/ DlCleanupRm(r)
        \/ DlDone(r)

---------------------------------------------------------------------------
(* Specifications *)

IdleRequests ==
    /\ up = UpIdle
    /\ dl = [r \in DlSlots |-> DlIdle]
    /\ lastRecon = NoUrl
    /\ conv = NoConv

WcAbsent == [kind |-> "absent", manifest |-> FALSE, script |-> "none"] @@ NoRepoFields

\* The server with both routes and one request handled at a time.  The two
\* routes act on different paths and share no variable, so the properties of a
\* route are checked under SpecUpload and SpecDownload below, whose state
\* spaces are the factors of this one.
Init ==
    /\ InitWc
    /\ InitTgt
    /\ IdleRequests
    /\ concurrency = 1

Next == NextUpload \/ NextDownload

Spec == Init /\ [][Next]_vars

\* The upload route alone, on every source path.
InitUpload ==
    /\ InitWc
    /\ tgt = TgtAbsent
    /\ IdleRequests
    /\ concurrency = 1

SpecUpload == InitUpload /\ [][NextUpload]_vars

\* The acquisition route alone, on every target path, one request at a time.
InitDownload ==
    /\ wc = WcAbsent
    /\ InitTgt
    /\ IdleRequests
    /\ concurrency = 1

SpecDownload == InitDownload /\ [][NextDownload]_vars

\* Both routes, one request at a time, on machines where at most one of the
\* two paths exists: the states are those of SpecUpload and of SpecDownload.
InitRoutes == InitUpload \/ InitDownload

NextRoutes ==
    \/ tgt = TgtAbsent /\ NextUpload
    \/ wc = WcAbsent /\ NextDownload

SpecRoutes == InitRoutes /\ [][NextRoutes]_vars

\* The acquisition route with two requests in flight at once on one target
\* path that holds a working copy.  Nothing in the handler orders the steps
\* of two requests, so every interleaving of their awaited calls is a behaviour.
InitConcurrent ==
    /\ wc = WcAbsent
    /\ tgt = [kind |-> "dir", isRepo |-> TRUE,
              remotes |-> <<Remote("origin", DlUrl(HttpsPrefix, "repo1", <<DotGit>>),
                                             DlUrl(HttpsPrefix, "repo1", <<DotGit>>))>>,
              head |-> "main", tree |-> "old", deps |-> "installed", script |-> "exec"]
    /\ IdleRequests
    /\ concurrency = 2

\* Two callers ask for the same repository and branch at the same path, once each.
SameRequest(r) ==
    /\ DlRequest(r)
    /\ dl'[r].url = DlUrl(HttpsPrefix, "repo1", <<DotGit>>)
    /\ dl'[r].branch = "main"
    /\ dl'[r].path = TargetPath

NextConcurrent ==
    \E r \in DlSlots :
        \/ SameRequest(r)
        \/ DlMkdir(r)
        \/ DlStat(r)
        \/ DlGetRemotes(r)
        \/ DlRemoveRemote(r)
        \/ DlAddRemote(r)
        \/ DlPull(r)
        \/ DlRmFailedUpdate(r)
        \/ DlRecheck(r)
        \/ DlClone(r)
        \/ DlInstall(r)
        \/ DlScriptStat(r)
        \/ DlCopyFile(r)
        \/ DlChmod(r)
        \/ DlCleanupStat(r)
        \/ DlCleanupRm(r)

SpecConcurrent == InitConcurrent /\ [][NextConcurrent]_vars

\* convertToSshUrl on its own, on every reference up to MaxUrlTokens tokens.
InitResolver ==
    /\ wc = WcAbsent
    /\ tgt = TgtAbsent
    /\ up = UpIdle
    /\ dl = [r \in DlSlots |-> DlIdle]
    /\ lastRecon = NoUrl
    /\ concurrency = 1
    /\ \E ref \in References : conv = [NoConv EXCEPT !.httpsUrl = ref, !.out = ref]

NextResolver == Resolve

SpecResolver == InitResolver /\ [][NextResolver]_vars

---------------------------------------------------------------------------
(* Reading the record of a request *)

HasOp(ops, name, ok) ==
    \E i \in 1..Len(ops) : ops[i].op = name /\ ops[i].ok = ok

Attempted(ops, name) == \E i \in 1..Len(ops) : ops[i].op = name

IsPush(o) == o.op \in {"pushSetUpstream", "push"}
Pushes(ops) == SelectSeq(ops, IsPush)

\* The upload has reached the steps that follow remote reconciliation.
ReachedCheckout(u) == u.pc = "checkout" \/ Attempted(u.ops, "checkout")

\* The remote named origin is registered once, with this URL for fetch and push.
OneOriginAt(remotes, url) ==
    /\ Cardinality({i \in 1..Len(remotes) : remotes[i].name = "origin"}) = 1
    /\ \A i \in 1..Len(remotes) :
         remotes[i].name = "origin" => remotes[i].fetch = url /\ remotes[i].push = url

---------------------------------------------------------------------------
(* C1 *)

---------------------------------------------------------------------------
(* C2 *)

\* The step of the upload sequence a call belongs to: 1 validate, 2 helper
\* script, 3 remote reconciliation, 4 checkout/create, 5 stage, 6 commit, 7 push.
StepOf(name) ==
    CASE name = "validate" -> 1
      [] name \in {"copyFile", "chmod"} -> 2
      [] name \in {"checkIsRepo", "init", "getRemotes", "removeRemote", "addRemote"} -> 3
      [] name \in {"checkout", "checkoutCreate"} -> 4
      [] name = "add" -> 5
      [] name = "commit" -> 6
      [] name \in {"branch", "pushSetUpstream", "push"} -> 7

SequenceSteps == {1, 3, 4, 5, 6}

\* The last call of step s among the first n calls, 0 when there is none.
LastOfStep(ops, s, n) ==
    IF \E i \in 1..n : StepOf(ops[i].op) = s
    THEN CHOOSE i \in 1..n :
             /\ StepOf(ops[i].op) = s
             /\ \A j \in (i + 1)..n : StepOf(ops[j].op) # s
    ELSE 0

\* C2: the calls of an upload occur in the order validate, reconcile remote,
\* checkout/create, stage, commit, push, and a call of a step is made only when
\* every earlier step of the sequence was executed and ended in success: after a
\* step failed no call of a later step is made.
C2_FixedOrder ==
    LET ops == up.ops
    IN  \A j \in 1..Len(ops) :
          /\ \A i \in 1..(j - 1) : StepOf(ops[i].op) <= StepOf(ops[j].op)
          /\ \A s \in SequenceSteps :
               s < StepOf(ops[j].op) =>
                 /\ LastOfStep(ops, s, j - 1) # 0
                 /\ ops[LastOfStep(ops, s, j - 1)].ok

\* A commit failed after a successful staging; the request ended with no push.
C2_Witness ==
    /\ up.pc = "done"
    /\ HasOp(up.ops, "add", TRUE)
    /\ HasOp(up.ops, "commit", FALSE)
    /\ Pushes(up.ops) = <<>>
    /\ up.resp = 500

---------------------------------------------------------------------------
(* C3 *)

UpdateOps == {"getRemotes", "removeRemote", "addRemote", "pull"}

\* The reconciliation or the pull of an existing target failed.
UpdateFailed(ops) ==
    \E i \in 1..Len(ops) : ops[i].op \in UpdateOps /\ ~ops[i].ok

\* The directory was removed and a clone was then run on the absent path.
RemovedThenCloned(ops) ==
    \E i, j \in 1..Len(ops) :
        /\ i < j
        /\ ops[i].op = "rm" /\ ops[i].ok
        /\ ops[j].op = "clone" /\ ops[j].pre = "absent"

---------------------------------------------------------------------------
(* C4 *)

\* C4: when the clone or the dependency installation of an acquisition request
\* failed, the cleanup of the target path ran after the failure and before the
\* error answer, and unless the cleanup itself failed the target path is absent
\* once the error is answered.
C4_CleanupBeforeError ==
    LET d == dl[1]
    IN  \A i \in 1..Len(d.ops) :
          (d.pc = "done" /\ d.ops[i].op \in {"clone", "install"} /\ ~d.ops[i].ok) =>
             /\ d.resp = 500
             /\ \E j \in (i + 1)..Len(d.ops) : d.ops[j].op = "cleanupStat"
             /\ ~HasOp(d.ops, "cleanupRm", FALSE) => tgt.kind = "absent"

\* The installation failed, the cleanup removed the directory, the answer is 500.
C4_Witness ==
    LET d == dl[1]
    IN  /\ d.pc = "done"
        /\ HasOp(d.ops, "install", FALSE)
        /\ HasOp(d.ops, "cleanupRm", TRUE)
        /\ d.resp = 500
        /\ tgt.kind = "absent"

---------------------------------------------------------------------------
(* C5 *)

\* C5: when the cleanup of a failed acquisition request itself failed, the
\* answer is still the 500 answer and it carries the failure that entered the
\* catch block (the call that failed right before the cleanup began), not the
\* failure of the cleanup.
C5_CleanupNeverMasks ==
    LET d == dl[1]
    IN  (d.pc = "done" /\ HasOp(d.ops, "cleanupRm", FALSE)) =>
          /\ d.resp = 500
          /\ d.respErr # "cleanupRm"
          /\ \E k \in 2..Len(d.ops) :
                /\ d.ops[k].op = "cleanupStat"
                /\ ~d.ops[k - 1].ok
                /\ d.respErr = d.ops[k - 1].op

\* The clone failed and then the cleanup failed; the request has answered.
C5_Witness ==
    LET d == dl[1]
    IN  /\ d.pc = "done"
        /\ HasOp(d.ops, "clone", FALSE)
        /\ HasOp(d.ops, "cleanupRm", FALSE)

---------------------------------------------------------------------------
(* C6 *)

\* C6: a 200 answer of an acquisition request that found no directory at the
\* target path implies that the clone, then the installation, then the chmod of
\* the helper script succeeded in this order, that the target is a working copy
\* of the resolved URL at the requested branch with its dependencies installed
\* and the helper script executable, and that the answered path is the
\* requested path.
C6_FreshAcquisition ==
    LET d == dl[1]
    IN  (d.pc = "done" /\ d.resp = 200 /\ ~d.targetPathExists) =>
          /\ \E i, j, k \in 1..Len(d.ops) :
                /\ i < j /\ j < k
                /\ d.ops[i] = [op |-> "clone", ok |-> TRUE, pre |-> "absent"]
                /\ d.ops[j].op = "install" /\ d.ops[j].ok
                /\ d.ops[k].op = "chmod" /\ d.ops[k].ok
          /\ tgt.kind = "dir" /\ tgt.tree = "cloned"
          /\ tgt.head = d.branch
          /\ OneOriginAt(tgt.remotes, convertToSshUrl(d.url))
          /\ tgt.deps = "installed"
          /\ tgt.script = "exec"
          /\ d.respPath = d.path /\ d.path = TargetPath

\* A request on an absent target succeeded after copying the helper script.
C6_Witness ==
    LET d == dl[1]
    IN  /\ d.pc = "done" /\ d.resp = 200 /\ ~d.targetPathExists
        /\ HasOp(d.ops, "copyFile", TRUE)
        /\ d.branch = "dev"

---------------------------------------------------------------------------
(* C7 *)

\* C7: when the source path of an upload had no version-control metadata, once
\* remote reconciliation has succeeded the path is a working copy with exactly
\* one remote, named origin, whose URL is the desired URL.
C7_FreshInit ==
    (HasOp(up.ops, "checkIsRepo", TRUE) /\ ~up.isRepo /\ ReachedCheckout(up)) =>
        /\ wc.isRepo
        /\ HasOp(up.ops, "init", TRUE)
        /\ wc.remotes = <<Remote("origin", remoteUrl(up.repo), remoteUrl(up.repo))>>

\* An upload initialised its source path and went on to the checkout.
C7_Witness ==
    /\ ~up.isRepo /\ HasOp(up.ops, "init", TRUE)
    /\ HasOp(up.ops, "addRemote", TRUE)
    /\ up.pc = "checkout"

---------------------------------------------------------------------------
(* C8 *)

\* The origin remote of these remotes has a URL, for fetch or for push, other than url.
OriginDiffers(remotes, url) ==
    /\ HasOrigin(remotes)
    /\ FindOrigin(remotes).fetch # url \/ FindOrigin(remotes).push # url

\* C8: when the origin remote of the working copy had a URL different from the
\* desired URL, once remote reconciliation has succeeded there is exactly one
\* origin entry and its URL, for fetch and for push, is the desired URL.
C8_Original ==
    (OriginDiffers(up.startRemotes, remoteUrl(up.repo)) /\ ReachedCheckout(up)) =>
        OneOriginAt(wc.remotes, remoteUrl(up.repo))

---------------------------------------------------------------------------
(* C9 *)

MutatingOps == {"init", "addRemote", "removeRemote"}

\* C9: an upload whose desired URL is the one the previous completed remote
\* reconciliation of the same working copy was made to performs no init, no
\* remote add and no remote remove, and leaves the remotes as they were.
C9_Idempotent ==
    (up.pc # "idle" /\ up.prevRecon = remoteUrl(up.repo)) =>
        /\ \A i \in 1..Len(up.ops) : up.ops[i].op \notin MutatingOps
        /\ wc.remotes = up.startRemotes
        /\ up.pc \notin {"init", "addRemote", "removeRemote"}

\* A second reconciliation to the same URL, after one that repointed the remote,
\* has read the remotes and gone on to the checkout.
C9_Witness ==
    /\ up.prevRecon = remoteUrl(up.repo)
    /\ HasOp(up.ops, "getRemotes", TRUE)
    /\ up.pc = "checkout"
    /\ up.repo = "repo2"

---------------------------------------------------------------------------
(* C10 *)

RemoteDependentPcs ==
    {"checkout", "checkoutCreate", "add", "commit", "branch",
     "pushSetUpstream", "pushRetry", "push"}

\* A remote named origin is registered with this fetch URL.
OriginAt(remotes, url) == HasOrigin(remotes) /\ FindOrigin(remotes).fetch = url

\* C10: no operation that depends on the remote is about to run (checkout,
\* stage, commit, push of an upload; pull of an acquisition) unless a remote
\* named origin is registered with the desired canonical URL.
C10_Original ==
    /\ up.pc \in RemoteDependentPcs => OriginAt(wc.remotes, remoteUrl(up.repo))
    /\ \A r \in DlSlots :
         dl[r].pc = "pull" => OriginAt(tgt.remotes, dl[r].ssh)

---------------------------------------------------------------------------
(* C11 *)

\* C11: when the requested branch did not exist locally, branch reconciliation
\* ends (the handler is about to stage) with that branch existing and checked
\* out, created at the position the working copy was at before the call, after
\* a plain switch that failed and a create-and-switch that succeeded.
C11_Original ==
    (up.pc = "add" /\ ~up.hadBranch) =>
        /\ up.branch \in wc.branches
        /\ wc.head = up.branch
        /\ wc.tip[up.branch] = up.preAt
        /\ wc.at = up.preAt
        /\ HasOp(up.ops, "checkout", FALSE)
        /\ HasOp(up.ops, "checkoutCreate", TRUE)

---------------------------------------------------------------------------
(* C12 *)

\* C12: create-and-switch is attempted only when the switch failed because the
\* branch does not exist locally; after any other checkout failure the request
\* ends with that failure as its error, no branch is created and no stage,
\* commit or push follows.
C12_Original ==
    /\ (up.pc = "checkoutCreate" \/ Attempted(up.ops, "checkoutCreate")) =>
          /\ ~up.hadBranch
          /\ up.checkoutErr = "pathspec"
    /\ (HasOp(up.ops, "checkout", FALSE) /\ up.checkoutErr # "pathspec") =>
          /\ up.pc = "done" /\ up.resp = 500 /\ up.err = "checkout"
          /\ wc.branches = up.startWc.branches
          /\ ~Attempted(up.ops, "add")
          /\ ~Attempted(up.ops, "commit")
          /\ Pushes(up.ops) = <<>>

---------------------------------------------------------------------------
(* C13 *)

\* C13: once the staging of an upload has succeeded the commit is attempted
\* next, whether or not anything is staged; and when the commit of an upload
\* with nothing staged fails, the request ends with the 500 answer and no push
\* is attempted.
C13_CommitUnconditional ==
    /\ HasOp(up.ops, "add", TRUE) =>
          up.pc = "commit" \/ Attempted(up.ops, "commit")
    /\ (up.nothingStaged /\ HasOp(up.ops, "commit", FALSE)) =>
          /\ up.pc = "done" /\ up.resp = 500 /\ up.err = "commit"
          /\ Pushes(up.ops) = <<>>

\* An upload found nothing to stage, attempted the commit, and the commit failed.
C13_Witness ==
    /\ up.nothingStaged
    /\ ~up.startWc.dirty
    /\ HasOp(up.ops, "commit", FALSE)
    /\ up.resp = 500

---------------------------------------------------------------------------
\* C14: a request that fails validation is answered at once with 400 or 404
\* and has made no call but the look at the source path: the working copy is
\* as it was when the request arrived, an acquisition request with a missing
\* field has made no call at all, and every request that made another call
\* had passed validation.
C14_ValidationNoEffect ==
    /\ (up.pc = "done" /\ up.resp \in {400, 404}) =>
          /\ up.err = "validate"
          /\ up.ops = <<Op("validate", FALSE)>>
          /\ wc = up.startWc
    /\ (up.pc # "idle" /\ (up.src = "" \/ up.repo = "" \/ up.msg = "")) =>
          /\ up.pc = "done" /\ up.resp = 400 /\ wc = up.startWc
    /\ (\E i \in DOMAIN up.ops : up.ops[i].op # "validate") =>
          /\ up.startWc.kind = "dir" /\ up.startWc.manifest
          /\ up.src # "" /\ up.repo # "" /\ up.msg # ""
    /\ \A r \in DlSlots :
          /\ (dl[r].pc = "done" /\ dl[r].resp = 400) =>
                dl[r].ops = <<>> /\ dl[r].cleanup = "none"
          /\ (dl[r].pc # "idle" /\ (dl[r].url = NoUrl \/ dl[r].path = "")) =>
                dl[r].pc = "done" /\ dl[r].resp = 400
          /\ dl[r].ops # <<>> => dl[r].url # NoUrl /\ dl[r].path # ""

\* A directory without package.json was refused after the look at the path.
C14_Witness ==
    /\ up.pc = "done" /\ up.resp = 400 /\ up.src # ""
    /\ wc.kind = "dir" /\ ~wc.manifest /\ wc.script = "none"

---------------------------------------------------------------------------
\* C15: resolving is idempotent and defined on every reference: resolving the
\* result again gives the result; a reference that does not start with the
\* web prefix, the transport form included, comes back unchanged; and
\* https://github.com/acct/repo1.git gives git@github.com:acct/repo1.git, which
\* resolves to itself.
C15_Idempotent ==
    /\ conv.n >= 1 =>
          /\ conv.out \in References /\ Len(conv.out) = Len(conv.httpsUrl)
          /\ conv.out = conv.once
          /\ ~StartsWith(conv.httpsUrl, HttpsPrefix) => conv.out = conv.httpsUrl
          /\ StartsWith(conv.httpsUrl, HttpsPrefix) =>
                /\ StartsWith(conv.out, SshPrefix)
                /\ Tail(conv.out) = Tail(conv.httpsUrl)
          /\ conv.httpsUrl = <<HttpsPrefix, "acct", "/", "repo1", DotGit>> =>
                conv.out = <<SshPrefix, "acct", "/", "repo1", DotGit>>
          /\ conv.httpsUrl = <<SshPrefix, "acct", "/", "repo1", DotGit>> =>
                conv.out = conv.httpsUrl

\* The web form of the example was resolved twice.
C15_Witness ==
    /\ conv.n = 2
    /\ conv.httpsUrl = <<HttpsPrefix, "acct", "/", "repo1", DotGit>>
    /\ conv.out = <<SshPrefix, "acct", "/", "repo1", DotGit>>

---------------------------------------------------------------------------
\* C16: every reference to one account and repository, in web form with or
\* without the ".git" suffix or in transport form, resolves to the one URL the
\* upload route builds for that account and repository.
C16_Original ==
    \A repo \in {"repo1"} :
        (/\ conv.n >= 1
         /\ conv.httpsUrl \in { DlUrl(HttpsPrefix, repo, <<DotGit>>),
                                DlUrl(HttpsPrefix, repo, <<>>),
                                DlUrl(SshPrefix, repo, <<DotGit>>) })
        => conv.out = remoteUrl(repo)

---------------------------------------------------------------------------
\* How many times a request has made a call.
Count(ops, name) == Cardinality({i \in DOMAIN ops : ops[i].op = name})

\* C17: nothing is retried beyond the two fallbacks.  One upload request
\* makes at most two pushes, at most one with --set-upstream and at most one
\* plain, the plain one coming second; init, checkout of the named branch,
\* checkout -b, add and commit are each called at most once.  One acquisition
\* request makes at most one pull, one removal after a failed update, one
\* clone and one npm install.
C17_NoRetry ==
    /\ Len(Pushes(up.ops)) <= 2
    /\ Count(up.ops, "pushSetUpstream") <= 1
    /\ Count(up.ops, "push") <= 1
    /\ Len(Pushes(up.ops)) = 2 =>
          Pushes(up.ops)[1] = Op("pushSetUpstream", FALSE) /\ Pushes(up.ops)[2].op = "push"
    /\ \A name \in {"init", "checkout", "checkoutCreate", "add", "commit"} :
          Count(up.ops, name) <= 1
    /\ \A r \in DlSlots :
          \A name \in {"pull", "rm", "clone", "install"} : Count(dl[r].ops, name) <= 1

\* An upload was answered after both pushes had been made and had failed.
C17_Witness ==
    /\ up.pc = "done" /\ up.resp = 500 /\ up.err = "push"
    /\ Pushes(up.ops) = <<Op("pushSetUpstream", FALSE), Op("push", FALSE)>>

---------------------------------------------------------------------------
\* The position in ops of the last call of that name, 0 when there is none.
LastIndexOf(ops, name) ==
    IF Attempted(ops, name)
    THEN CHOOSE i \in DOMAIN ops :
             ops[i].op = name /\ \A j \in DOMAIN ops : j > i => ops[j].op # name
    ELSE 0

\* C19: a successful upload answer carries the commit identifier the commit
\* step of the same request returned, whether the first push or the plain
\* push of the fallback succeeded, and it is given only after the commit
\* resolved and, after it, a push resolved.
C19_CommitCarried ==
    (up.pc = "done" /\ up.resp = 200) =>
        /\ HasOp(up.ops, "commit", TRUE)
        /\ up.respCommit = up.commit
        /\ up.commit \in CommitIds \cup {NoCommit}
        /\ up.commit # NoCommit => wc.at = up.commit /\ up.commit # up.preAt
        /\ Pushes(up.ops) # <<>>
        /\ Pushes(up.ops)[Len(Pushes(up.ops))].ok
        /\ up.ops[Len(up.ops)] \in {Op("push", TRUE), Op("pushSetUpstream", TRUE)}
        /\ LastIndexOf(up.ops, "commit") < Len(up.ops)

\* The plain push of the fallback succeeded and the answer carries the commit.
C19_Witness ==
    /\ up.pc = "done" /\ up.resp = 200
    /\ Pushes(up.ops) = <<Op("pushSetUpstream", FALSE), Op("push", TRUE)>>
    /\ up.respCommit \in CommitIds

---------------------------------------------------------------------------
\* The request has reached or passed the clone.
CloneRuns(d) == d.pc = "clone" \/ Attempted(d.ops, "clone")

\* The request has decided whether to clone.
CloneDecided(d) ==
    \/ Attempted(d.ops, "stat") /\ ~d.targetPathExists
    \/ Attempted(d.ops, "recheck")

\* The failed update was followed by the removal, and the second look at the
\* target then found no directory.
GoneAfterFailedUpdate(d) ==
    /\ UpdateFailed(d.ops)
    /\ HasOp(d.ops, "rm", TRUE)
    /\ \E i \in DOMAIN d.ops : d.ops[i].op = "recheck" /\ d.ops[i].pre # "dir"

\* The clone runs exactly when the target was no directory at the first look
\* or is none after the removal that follows a failed update.
CloneIffNoDirectory(d) ==
    IF CloneDecided(d)
    THEN CloneRuns(d) <=> (~d.targetPathExists \/ GoneAfterFailedUpdate(d))
    ELSE ~CloneRuns(d)

\* C20 (as stated): when the target is a directory and reconciliation and pull
\* succeed, the request neither removes the directory nor clones; the clone
\* runs exactly when the target was no directory at the first look or is none
\* after the removal that follows a failed update.
C20_Original ==
    LET d == dl[1]
    IN  /\ (d.targetPathExists /\ HasOp(d.ops, "pull", TRUE)) =>
              /\ ~HasOp(d.ops, "rm", TRUE)
              /\ ~HasOp(d.ops, "cleanupRm", TRUE)
              /\ ~CloneRuns(d)
        /\ CloneIffNoDirectory(d)

\* C20 (amended): when the target is a directory and reconciliation and pull
\* succeed, the update fallback removes nothing and no clone is run, and the
\* directory stays as long as no later step fails; it is removed in that
\* request only by the failure cleanup, after npm install or the provisioning
\* of the script failed.  The clone runs exactly when the target was no
\* directory at the first look or is none after the removal that follows a
\* failed update.
C20_CloneDecision ==
    LET d == dl[1]
    IN  /\ (d.targetPathExists /\ HasOp(d.ops, "pull", TRUE)) =>
              /\ ~Attempted(d.ops, "rm")
              /\ ~CloneRuns(d)
              /\ d.err = "" => tgt.kind = "dir"
              /\ (d.pc = "cleanupRm" \/ Attempted(d.ops, "cleanupRm")) =>
                    d.err \in {"install", "copyFile", "chmod"}
        /\ CloneIffNoDirectory(d)

\* An existing directory was repointed and pulled, and the request succeeded
\* without a removal or a clone.
C20_Witness ==
    LET d == dl[1]
    IN  /\ d.pc = "done" /\ d.resp = 200 /\ d.targetPathExists
        /\ HasOp(d.ops, "addRemote", TRUE) /\ HasOp(d.ops, "pull", TRUE)
        /\ ~Attempted(d.ops, "clone") /\ tgt.kind = "dir"

---------------------------------------------------------------------------
\* The next awaited call of request r, whichever it is.
DlStep(r) ==
    \/ DlMkdir(r) \/ DlStat(r) \/ DlGetRemotes(r) \/ DlRemoveRemote(r)
    \/ DlAddRemote(r) \/ DlPull(r) \/ DlRmFailedUpdate(r) \/ DlRecheck(r)
    \/ DlClone(r) \/ DlInstall(r) \/ DlScriptStat(r) \/ DlCopyFile(r)
    \/ DlChmod(r) \/ DlCleanupStat(r) \/ DlCleanupRm(r)

\* C18: nothing serialises two acquisition requests on one path.  A request
\* is admitted while another is between any two of its calls, and a request
\* between two calls can make its next call whatever the other request is
\* doing, so that the calls of the two interleave freely on the target.
C18_NoLocking ==
    /\ \A r \in DlSlots :
          (FreeSlot(r) /\ CanStart) => ENABLED DlRequest(r)
    /\ \A r \in DlSlots :
          dl[r].pc \notin {"idle", "done"} => ENABLED DlStep(r)

\* The first request installed the dependencies; before its last call the
\* second removed the directory and cloned it again; the first made its last
\* call on a directory without dependencies and answered 200.
C18_Witness ==
    /\ dl[1].pc = "done" /\ dl[1].resp = 200
    /\ HasOp(dl[1].ops, "install", TRUE)
    /\ dl[1].respDeps = "none"
    /\ HasOp(dl[2].ops, "rm", TRUE)
    /\ HasOp(dl[2].ops, "clone", TRUE)

---------------------------------------------------------------------------
\* The calls whose rejection reaches the outer catch of the acquisition handler.
ThrowingOps == {"mkdir", "rm", "clone", "install", "copyFile", "chmod"}

\* C21: an acquisition request that passed field validation and ended in an
\* error failed in mkdir, in the removal after a failed update, in the clone,
\* in npm install or in the copy or chmod of the script; whichever it was, the
\* cleanup looked at the target path after the failure and before the answer,
\* and removed it when it was there, so that the target path is absent once
\* the error is answered unless the cleanup itself failed.  A directory that
\* was there before the request and that the pull had updated is no exception.
C21_CleanupOnEveryError ==
    LET d == dl[1]
    IN  /\ (d.pc = "done" /\ d.ops # <<>>) => d.resp \in {200, 500}
        /\ (d.pc = "done" /\ d.resp = 500) =>
              /\ d.err \in ThrowingOps /\ d.respErr = d.err
              /\ HasOp(d.ops, d.err, FALSE)
              /\ LastIndexOf(d.ops, d.err) < LastIndexOf(d.ops, "cleanupStat")
              /\ d.cleanup \in {"absent", "removed", "failed"}
              /\ d.cleanup = "removed" <=> HasOp(d.ops, "cleanupRm", TRUE)
              /\ d.cleanup = "failed" <=> HasOp(d.ops, "cleanupRm", FALSE)
              /\ d.cleanup # "failed" => tgt = TgtAbsent

\* A directory that was there and had been pulled was removed by the cleanup
\* after the chmod of the script failed.
C21_Witness ==
    LET d == dl[1]
    IN  /\ d.pc = "done" /\ d.resp = 500 /\ d.err = "chmod"
        /\ d.targetPathExists /\ HasOp(d.ops, "pull", TRUE)
        /\ d.cleanup = "removed" /\ tgt = TgtAbsent

=============================================================================
